---- MODULE Spec2Model ----
(***************************************************************************)
(* Model of the adaptive grading / feedback loop of src/app.py (a          *)
(* Streamlit script).  One script run handles at most one form submission: *)
(* the grading form (lines 375-480) or the feedback form (lines 541-606).  *)
(* The variables are the keys of st.session_state plus what the run does   *)
(* to the outside world: the prompt sent to the grading engine, the rows   *)
(* of the Google sheet, the collaborators called and the messages shown.   *)
(*                                                                         *)
(* A text is a sequence of tokens (TLA+ strings).  " " and "\n" are the    *)
(* whitespace tokens; every other token stands for a run of non-blank      *)
(* characters, so that str.strip() and str.join() are computed, not        *)
(* assumed.                                                                *)
(***************************************************************************)
EXTENDS Integers, Sequences, FiniteSets, TLC

VARIABLES
    history,                        \* st.session_state.history
    last_eval,                      \* st.session_state.last_eval (<<>> is None, else <<dict>>)
    just_graded,                    \* st.session_state.just_graded
    current_adaptive_instruction,   \* st.session_state.current_adaptive_instruction
    last_image_notes,               \* st.session_state.last_image_notes
    last_uploaded_links,            \* st.session_state.last_uploaded_links
    GEMINI_AVAILABLE,               \* module-level flag, fixed for the deployment
    sheet,                          \* rows of the Google sheet appended by this session
    lastPrompt,                     \* prompt of the latest chain.invoke (<<>> before the first)
    calls,                          \* collaborators called during the latest run
    messages,                       \* st.success/info/warning/error shown by the latest run
    feedback_form,                  \* feedback form values the latest run read (<<>> if none)
    refine_response                 \* content the refinement engine returned to the latest
                                    \* run (<<>> if it was not called or raised, else <<text>>)

vars == <<history, last_eval, just_graded, current_adaptive_instruction,
          last_image_notes, last_uploaded_links, GEMINI_AVAILABLE, sheet,
          lastPrompt, calls, messages, feedback_form, refine_response>>

----------------------------------------------------------------------------
(* Bounds of the model *)

\* successful gradings per session
MaxHistory == 2

----------------------------------------------------------------------------
(* Texts *)

Whitespace == {" ", "\n"}

RECURSIVE LStrip(_)
LStrip(s) == IF s # <<>> /\ Head(s) \in Whitespace THEN LStrip(Tail(s)) ELSE s

RECURSIVE RStrip(_)
RStrip(s) ==
    IF s # <<>> /\ s[Len(s)] \in Whitespace THEN RStrip(SubSeq(s, 1, Len(s) - 1)) ELSE s

\* str.strip()
Strip(s) == RStrip(LStrip(s))

\* s.startswith(p)
IsPrefix(p, s) == Len(p) <= Len(s) /\ SubSeq(s, 1, Len(p)) = p

\* sep.join(parts), parts a sequence of texts
RECURSIVE Join(_, _)
Join(sep, parts) ==
    IF parts = <<>> THEN <<>>
    ELSE IF Len(parts) = 1 THEN parts[1]
    ELSE parts[1] \o sep \o Join(sep, Tail(parts))

\* the literal the refinement engine is told to answer with
SENTINEL == <<"NO_IMPROVEMENT_NEEDED">>

\* user_info["email"] of the signed-in user
UserEmail == <<"user@example.org">>

----------------------------------------------------------------------------
(* Inputs of a grading submission and answers of the collaborators *)

\* the question text area
Questions == {<<>>, <<"Q1", " ">>}
\* the ideal answer text area
IdealAnswers == {<<>>, <<"I1">>}
\* the typed student answer text area
TypedAnswers == {<<>>, <<"A1", " ">>}
\* the grading style select box; the style only reaches the prompt
GradingStyles == {"Balanced"}
\* names of the files the uploader can hold
FileNames == {"a.png"}

\* the files of the uploader: none, or one image
ImageLists == {<<>>} \cup {<<f>> : f \in FileNames}

\* the outcomes of one upload to the drive: TRUE is a link, FALSE a failed upload
\* (which only drops the link, line 389); the uploads explored succeed
UploadOutcomes == {TRUE}

\* one answer of the vision engine: ok = FALSE is an exception, text is resp.text
\* (None is the empty text, as `resp.text or ""` makes it)
VisionOutcomes ==
    {[ok |-> FALSE, text |-> <<>>], [ok |-> TRUE, text |-> <<>>],
     [ok |-> TRUE, text |-> <<"V1", " ">>]}

\* a value of the engine's structured output: a number, a non-numeric string,
\* or a key that is absent
Num(n) == [kind |-> "num", val |-> n]
NonNumeric == [kind |-> "str", val |-> 0]
Missing == [kind |-> "missing", val |-> 0]

ScoreFields ==
    {"content_accuracy", "completeness", "language_clarity",
     "depth_understanding", "structure_coherence"}

\* the answers of the grading chain: ok = FALSE is an exception of chain.invoke
\* (transport error, or output the structured parser cannot read)
GradeOutcomes ==
    {[ok |-> FALSE, scores |-> [f \in ScoreFields |-> Missing], justification |-> <<>>],
     [ok |-> TRUE,
      scores |-> [f \in ScoreFields |-> IF f = "structure_coherence" THEN Num(1) ELSE Num(2)],
      justification |-> <<"good", "\n", "answer">>],
     [ok |-> TRUE,
      scores |-> [f \in ScoreFields |-> IF f = "completeness" THEN NonNumeric ELSE Num(1)],
      justification |-> <<"bad">>]}

\* the answers of the grading chain whose scores are read without an exception
ReadableOutcomes ==
    {g \in GradeOutcomes : \A f \in ScoreFields : g.scores[f].kind # "str"}

\* the maximum of each score, as the schema describes the fields (lines 242-246)
\* and the render prints them (lines 439-443)
ScoreCap(f) ==
    CASE f = "content_accuracy" -> 3
      [] f = "structure_coherence" -> 1
      [] OTHER -> 2

\* the values one field of the engine's output can hold: below the range, its
\* ends, above it, absent, and a string that is no number
ScoreValues(f) ==
    {Num(0 - 1), Num(0), Num(ScoreCap(f)), Num(ScoreCap(f) + 1), Missing, NonNumeric}

\* answers of the grading chain that vary one field; the parser returns every key
\* of the engine's JSON object, so an answer may carry a total of its own
ScoreOutcomes ==
    UNION {{[ok |-> TRUE,
             scores |-> [f \in ScoreFields |-> IF f = h THEN v ELSE Num(1)],
             justification |-> <<"fair">>,
             reported_total |-> 10] : v \in ScoreValues(h)} : h \in ScoreFields}

\* answers of the grading chain that vary the justification: absent, plain,
\* padded, and holding the literals of the render
RenderOutcomes ==
    {[ok |-> TRUE,
      scores |-> [f \in ScoreFields |-> Num(n)],
      justification |-> j] :
        n \in {0, 1},
        j \in {<<>>, <<"fine">>, <<" ", "padded", "\n">>,
               <<"## Justification:", "\n", "twice">>,
               <<"see", " ", "## Justification:">>,
               <<"## Marks:", "\n", "none">>}}

\* the uploader holding up to two files
TwoImageLists == {<<>>, <<"a.png">>, <<"a.png", "b.png">>}

----------------------------------------------------------------------------
(* Helpers of the grading submission *)

\* upload_image_to_drive: the shareable link, or "" when the upload failed
DriveLink(f) == <<"https://drive.google.com/", f>>

\* uploaded_links (lines 384-390): the non-empty links, in upload order
RECURSIVE UploadedLinks(_, _)
UploadedLinks(images, uploaded) ==
    IF images = <<>> THEN <<>>
    ELSE (IF Head(uploaded) THEN <<DriveLink(Head(images))>> ELSE <<>>)
         \o UploadedLinks(Tail(images), Tail(uploaded))

\* "; ".join(links)
JoinLinks(links) == Join(<<"; ">>, links)

\* gemini_analyze_image (lines 297-314)
VisionText(available, v) ==
    IF ~available THEN <<>>
    ELSE IF v.ok THEN Strip(v.text) ELSE <<>>

\* the excerpt limit of a note
ExcerptLimit == 800

\* the per-image note (lines 328-331)
ImageNote(f, vision_text) ==
    [file |-> f,
     vision_excerpt |->
        IF vision_text # <<>> /\ Len(vision_text) > ExcerptLimit
        THEN SubSeq(vision_text, 1, ExcerptLimit) \o <<"...">>
        ELSE vision_text]

\* the loop over the images left at the first extraction that fails
RECURSIVE VisionChunksAbortOnFailure(_, _, _)
VisionChunksAbortOnFailure(available, images, visions) ==
    IF images = <<>> \/ ~Head(visions).ok THEN <<>>
    ELSE LET t == VisionText(available, Head(visions))
         IN  (IF t # <<>> THEN <<<<"[VISION:", Head(images), "]", "\n">> \o t>> ELSE <<>>)
             \o VisionChunksAbortOnFailure(available, Tail(images), Tail(visions))

\* all_chunks of process_images_to_context (lines 324-337)
RECURSIVE VisionChunks(_, _, _)
VisionChunks(available, images, visions) ==
    IF images = <<>> THEN <<>>
    ELSE LET t == VisionText(available, Head(visions))
         IN  (IF t # <<>> THEN <<<<"[VISION:", Head(images), "]", "\n">> \o t>> ELSE <<>>)
             \o VisionChunks(available, Tail(images), Tail(visions))

RECURSIVE ImageNotes(_, _, _)
ImageNotes(available, images, visions) ==
    IF images = <<>> THEN <<>>
    ELSE <<ImageNote(Head(images), VisionText(available, Head(visions)))>>
         \o ImageNotes(available, Tail(images), Tail(visions))

\* combined_text of process_images_to_context (lines 318-340)
ImageContext(available, images, visions) ==
    IF images = <<>> THEN <<>>
    ELSE Strip(Join(<<"\n", "\n", "---", "\n">>, VisionChunks(available, images, visions)))

\* the delimiter put before the image context (line 412)
ContextDelimiter ==
    <<"\n", "\n", "---", "\n", "[IMAGE-DERIVED CONTEXT FOR GRADING]", "\n">>

\* the delimiter appended whether or not an image produced text
StudentAnswerAlwaysDelimited(student_answer_text, image_context_text) ==
    Strip(student_answer_text) \o ContextDelimiter \o image_context_text

\* student_answer_augmented (lines 408-412)
StudentAnswerAugmented(student_answer_text, image_context_text) ==
    (IF student_answer_text # <<>> THEN Strip(student_answer_text) ELSE <<>>)
    \o (IF image_context_text # <<>>
        THEN ContextDelimiter \o image_context_text
        ELSE <<>>)

\* student_answer_for_log (line 415)
StudentAnswerForLog(student_answer_text, image_context_text) ==
    IF image_context_text # <<>> THEN Strip(image_context_text)
    ELSE Strip(student_answer_text)

\* json_prompt formatted with the arguments of chain.invoke (lines 251-278, 421-427)
GradingPrompt(grading_style, question, ideal_answer, student_answer) ==
    <<"You are an expert assignment grader.", "\n", "Rubric", "\n",
      "Grading Style: ", grading_style, "\n", "Question:", "\n">>
    \o Strip(question)
    \o <<"\n", "IdealAnswer:", "\n">> \o Strip(ideal_answer)
    \o <<"\n", "StudentAnswer:", "\n">> \o student_answer
    \o <<"\n", "Return ONLY a JSON object following this schema:", "\n",
         "format_instructions">>

\* float(parsed.get(field, 0)) raises on a non-numeric value (lines 429-433)
CanFloat(v) == v.kind \in {"num", "missing"}
Float(v) == IF v.kind = "num" THEN v.val ELSE 0

\* the try block up to the render succeeds (lines 421-447)
GradingSucceeds(g) == g.ok /\ \A f \in ScoreFields : CanFloat(g.scores[f])

\* the total copied from the engine's own arithmetic
TotalReportedByEngine(g) == g.reported_total

\* total (line 434)
Total(g) ==
    Float(g.scores["content_accuracy"]) + Float(g.scores["completeness"])
    + Float(g.scores["language_clarity"]) + Float(g.scores["depth_understanding"])
    + Float(g.scores["structure_coherence"])

\* str() of a float holding a whole number
FloatStr(x) == ToString(x) \o ".0"

\* the literal that opens the second section of an evaluation (line 446)
JustificationMarker == "## Justification:"

\* the Marks section of the evaluation (lines 438-445)
MarksBlock(g) ==
    <<"## Marks:", "\n",
      "- Content Accuracy: ", FloatStr(Float(g.scores["content_accuracy"])), "/3", "\n",
      "- Completeness: ", FloatStr(Float(g.scores["completeness"])), "/2", "\n",
      "- Language & Clarity: ", FloatStr(Float(g.scores["language_clarity"])), "/2", "\n",
      "- Depth of Understanding: ", FloatStr(Float(g.scores["depth_understanding"])), "/2", "\n",
      "- Structure & Coherence: ", FloatStr(Float(g.scores["structure_coherence"])), "/1", "\n",
      "- **Total: ", FloatStr(Total(g)), "/10**">>

\* evaluation (lines 435-447)
Evaluation(g) ==
    Strip(MarksBlock(g) \o <<"\n", "\n", JustificationMarker, "\n">>
          \o Strip(g.justification) \o <<"\n">>)

\* the places of the marker in an evaluation
MarkerPlaces(evaluation) ==
    {k \in 1..Len(evaluation) : evaluation[k] = JustificationMarker}

\* marks_section_raw of the display (lines 487-489): what precedes the first marker
MarksSectionRaw(evaluation) ==
    LET first == CHOOSE k \in MarkerPlaces(evaluation) :
                    \A j \in MarkerPlaces(evaluation) : k <= j
    IN  Strip(SubSeq(evaluation, 1, first - 1))

\* the explanation taken after the last marker, as rsplit would
ExplanationAfterLastMarker(evaluation) ==
    LET last == CHOOSE k \in MarkerPlaces(evaluation) :
                    \A j \in MarkerPlaces(evaluation) : k >= j
    IN  Strip(SubSeq(evaluation, last + 1, Len(evaluation)))

\* explanation_section of the display (lines 487-490): what follows the first marker
ExplanationSection(evaluation) ==
    LET first == CHOOSE k \in MarkerPlaces(evaluation) :
                    \A j \in MarkerPlaces(evaluation) : k <= j
    IN  Strip(SubSeq(evaluation, first + 1, Len(evaluation)))

\* timestamp (line 448): the k-th successful grading of the session is stamped k
Timestamp == <<ToString(Len(history) + 1)>>

\* the record appended to the history (lines 451-462)
HistoryRecord(question, ideal_answer, student_answer_for_log, evaluation, uploaded_links) ==
    [user |-> UserEmail,
     timestamp |-> Timestamp,
     question |-> Strip(question),
     ideal_answer |-> Strip(ideal_answer),
     student_answer |-> student_answer_for_log,
     evaluation |-> Strip(evaluation),
     feedback |-> "",
     detailed_feedback |-> <<>>,
     generated_instruction |-> <<>>,
     image_links |-> JoinLinks(uploaded_links)]

\* the cached last evaluation (lines 465-472)
LastEvalRecord(question, ideal_answer, student_answer_for_log, evaluation) ==
    [email |-> UserEmail,
     timestamp |-> Timestamp,
     question |-> Strip(question),
     ideal_answer |-> Strip(ideal_answer),
     student_answer |-> student_answer_for_log,
     evaluation |-> Strip(evaluation)]

\* the record appended before the engine's output is parsed
HistoryAppendedBeforeParse(g, record) == Append(history, record)

\* the record put in front of the history
HistoryPrepended(g, record) ==
    IF GradingSucceeds(g) THEN <<record>> \o history ELSE history

\* the history after the try block (lines 419-478): the append is its last but
\* two statements, so a failed grading leaves the history alone
HistoryAfterGrading(g, record) ==
    IF GradingSucceeds(g) THEN Append(history, record) ELSE history

\* just_graded left as it was by a failed grading (no line 478)
JustGradedKeptOnFailure(g) == GradingSucceeds(g) \/ just_graded

\* just_graded after the try block (lines 474, 478)
JustGradedAfterGrading(g) == GradingSucceeds(g)

\* the completeness check without the ideal answer
SubmissionCompleteNoIdeal(question, ideal_answer, student_answer_text, student_answer_images) ==
    question # <<>> /\ (student_answer_text # <<>> \/ student_answer_images # <<>>)

\* the completeness check of a submission (line 376)
SubmissionComplete(question, ideal_answer, student_answer_text, student_answer_images) ==
    /\ question # <<>>
    /\ ideal_answer # <<>>
    /\ (student_answer_text # <<>> \/ student_answer_images # <<>>)

----------------------------------------------------------------------------
(* Inputs of a feedback submission and answers of the collaborators *)

\* the satisfaction radio
Satisfactions == {"Yes", "No"}
\* the detailed feedback text area
DetailTexts == {<<>>, <<" ">>, <<"D1", "\n">>}

\* the answers of the refinement engine: ok = FALSE is an exception of
\* refine_model.invoke, content is refine_response.content (None is the empty
\* text, as `refine_response.content or ""` makes it)
RefineOutcomes ==
    {[ok |-> FALSE, content |-> <<>>],
     [ok |-> TRUE, content |-> <<>>],
     [ok |-> TRUE, content |-> <<"NO_IMPROVEMENT_NEEDED">>],
     [ok |-> TRUE, content |-> <<"NO_IMPROVEMENT_NEEDED", "\n">>],
     [ok |-> TRUE, content |-> <<" ", "S1">>]}

----------------------------------------------------------------------------
(* Helpers of the feedback submission *)

\* the guard without the strip: a blank detail text passes
DetailMissingUnstripped(satisfaction, detailed_feedback_text) ==
    satisfaction = "No" /\ detailed_feedback_text = <<>>

\* the empty-detail guard (line 542)
DetailMissing(satisfaction, detailed_feedback_text) ==
    satisfaction = "No" /\ Strip(detailed_feedback_text) = <<>>

\* the refinement branch is taken (line 552)
RefinementWanted(satisfaction, detailed_feedback_text) ==
    satisfaction = "No" /\ Strip(detailed_feedback_text) # <<>>

\* generated_instruction at line 578 (lines 551, 562-563)
GeneratedInstruction(satisfaction, detailed_feedback_text, r) ==
    IF RefinementWanted(satisfaction, detailed_feedback_text) /\ r.ok
    THEN Strip(r.content)
    ELSE <<>>

\* the test without the comparison to the sentinel
InstructionUsableNoSentinel(generated_instruction) ==
    generated_instruction # <<>>

\* the test that keeps a refinement result (line 565)
InstructionUsable(generated_instruction) ==
    generated_instruction # <<>> /\ generated_instruction # SENTINEL

\* the new instruction appended to the slot instead of replacing it
AdaptiveInstructionAppended(satisfaction, detailed_feedback_text, r) ==
    IF RefinementWanted(satisfaction, detailed_feedback_text)
    THEN IF r.ok /\ InstructionUsable(Strip(r.content))
         THEN current_adaptive_instruction \o Strip(r.content)
         ELSE <<>>
    ELSE <<>>

\* the slot left alone by a satisfied vote (no line 576)
AdaptiveInstructionKeptOnYes(satisfaction, detailed_feedback_text, r) ==
    IF RefinementWanted(satisfaction, detailed_feedback_text)
    THEN IF r.ok /\ InstructionUsable(Strip(r.content)) THEN Strip(r.content) ELSE <<>>
    ELSE current_adaptive_instruction

\* the slot left alone when the refinement call raises (no line 573)
AdaptiveInstructionKeptOnError(satisfaction, detailed_feedback_text, r) ==
    IF RefinementWanted(satisfaction, detailed_feedback_text)
    THEN IF ~r.ok THEN current_adaptive_instruction
         ELSE IF InstructionUsable(Strip(r.content)) THEN Strip(r.content) ELSE <<>>
    ELSE <<>>

\* the slot left alone when the refinement produced nothing usable (no line 570)
AdaptiveInstructionKeptOnUnusable(satisfaction, detailed_feedback_text, r) ==
    IF RefinementWanted(satisfaction, detailed_feedback_text)
    THEN IF ~r.ok THEN <<>>
         ELSE IF InstructionUsable(Strip(r.content)) THEN Strip(r.content)
         ELSE current_adaptive_instruction
    ELSE <<>>

\* current_adaptive_instruction after the submission (lines 565-576)
AdaptiveInstructionAfter(satisfaction, detailed_feedback_text, r) ==
    IF RefinementWanted(satisfaction, detailed_feedback_text)
    THEN IF r.ok /\ InstructionUsable(Strip(r.content)) THEN Strip(r.content) ELSE <<>>
    ELSE <<>>

\* the messages of the refinement step (lines 567, 569, 572, 575)
RefinementMessages(satisfaction, detailed_feedback_text, r) ==
    IF RefinementWanted(satisfaction, detailed_feedback_text)
    THEN IF ~r.ok THEN {"refine_error"}
         ELSE IF InstructionUsable(Strip(r.content)) THEN {"new_instruction"}
         ELSE {"no_instruction"}
    ELSE {"positive_feedback"}

\* str.replace("\n", " <return> ") (line 581)
RECURSIVE FlattenLines(_)
FlattenLines(s) ==
    IF s = <<>> THEN <<>>
    ELSE (IF Head(s) = "\n" THEN <<" ", "<return>", " ">> ELSE <<Head(s)>>)
         \o FlattenLines(Tail(s))

\* row_to_append (lines 580-596)
RowToAppend(satisfaction, generated_instruction, hist) ==
    [user |-> last_eval[1].email,
     timestamp |-> last_eval[1].timestamp,
     question |-> last_eval[1].question,
     student_answer |-> last_eval[1].student_answer,
     evaluation |-> FlattenLines(last_eval[1].evaluation),
     feedback |-> satisfaction,
     detailed_feedback |-> hist[Len(hist)].detailed_feedback,
     generated_instruction |-> generated_instruction,
     image_links |-> IF last_uploaded_links # <<>> THEN JoinLinks(last_uploaded_links) ELSE <<>>]

\* the history after lines 548, 549 and 578
HistoryWithFeedback(satisfaction, detailed_feedback_text, generated_instruction) ==
    [history EXCEPT ![Len(history)] =
        [@ EXCEPT !.feedback = satisfaction,
                  !.detailed_feedback = Strip(detailed_feedback_text),
                  !.generated_instruction = generated_instruction]]

\* just_graded not reset by an accepted feedback submission
JustGradedLeftSet == TRUE

\* just_graded at the end of an accepted feedback submission (line 604)
JustGradedAfterFeedback == FALSE

\* the failed append leaving the run before line 604
JustGradedKeptOnLogFailure(appended) ==
    IF appended THEN JustGradedAfterFeedback ELSE just_graded

\* just_graded after the append to the sheet (lines 598-604): the except branch
\* only warns, and line 604 runs after either branch
JustGradedAfterAppend(appended) == JustGradedAfterFeedback

\* the rows of the session CSV export (lines 634-641): the history as it is
ExportRows == history

\* the feedback form is shown and can be submitted (line 483)
FeedbackFormShown == just_graded /\ last_eval # <<>>

----------------------------------------------------------------------------
(* The state after construction (lines 282-293) *)

Init ==
    /\ history = <<>>
    /\ last_eval = <<>>
    /\ just_graded = FALSE
    /\ current_adaptive_instruction = <<>>
    /\ last_image_notes = <<>>
    /\ last_uploaded_links = <<>>
    /\ GEMINI_AVAILABLE \in BOOLEAN
    /\ sheet = <<>>
    /\ lastPrompt = <<>>
    /\ calls = {}
    /\ messages = {}
    /\ feedback_form = <<>>
    /\ refine_response = <<>>

----------------------------------------------------------------------------
(* A run of the script with the grading form submitted (lines 375-480) *)

\* no guard on images without a vision engine
VisionGuardSkipped(student_answer_images) == FALSE

\* the guard on images without a vision engine (line 378)
VisionUnavailable(student_answer_images) ==
    student_answer_images # <<>> /\ ~GEMINI_AVAILABLE

\* the run once the submission is accepted (lines 382-478)
GradeAccepted(question, ideal_answer, student_answer_text, student_answer_images, grading_style, uploaded, visions, g) ==
    LET uploaded_links == UploadedLinks(student_answer_images, uploaded)
        image_context_text == ImageContext(GEMINI_AVAILABLE, student_answer_images, visions)
        per_image_notes == ImageNotes(GEMINI_AVAILABLE, student_answer_images, visions)
        student_answer_augmented ==
            StudentAnswerAugmented(student_answer_text, image_context_text)
        student_answer_for_log ==
            StudentAnswerForLog(student_answer_text, image_context_text)
        side ==
            (IF student_answer_images # <<>> THEN {"drive", "vision"} ELSE {})
        warned ==
            (IF \E i \in 1..Len(uploaded) : ~uploaded[i] THEN {"drive_failed"} ELSE {})
            \cup (IF \E i \in 1..Len(visions) : ~visions[i].ok THEN {"vision_failed"} ELSE {})
    IN  /\ last_uploaded_links' = uploaded_links
        /\ last_image_notes' = per_image_notes
        /\ lastPrompt' = GradingPrompt(grading_style, question, ideal_answer,
                                       student_answer_augmented)
        /\ calls' = side \cup {"grade"}
        /\ history' = HistoryAfterGrading(g,
                HistoryRecord(question, ideal_answer, student_answer_for_log,
                              Evaluation(g), uploaded_links))
        /\ last_eval' =
               IF GradingSucceeds(g)
               THEN <<LastEvalRecord(question, ideal_answer, student_answer_for_log,
                                     Evaluation(g))>>
               ELSE last_eval
        /\ just_graded' = JustGradedAfterGrading(g)
        /\ messages' = warned \cup
               (IF GradingSucceeds(g) THEN {"grading_ok"} ELSE {"grading_error"})
        /\ feedback_form' = <<>>
        /\ refine_response' = <<>>
        /\ UNCHANGED <<current_adaptive_instruction, GEMINI_AVAILABLE, sheet>>

\* the run stops or warns before anything is done (lines 376-380, 479-480)
GradeRefused(message) ==
    /\ messages' = {message}
    /\ calls' = {}
    /\ feedback_form' = <<>>
    /\ refine_response' = <<>>
    /\ UNCHANGED <<history, last_eval, just_graded, current_adaptive_instruction,
                   last_image_notes, last_uploaded_links, GEMINI_AVAILABLE, sheet,
                   lastPrompt>>

\* the run on one submission of the grading form (lines 375-480)
GradingRun(question, ideal_answer, student_answer_text, student_answer_images, outcomes) ==
    IF ~SubmissionComplete(question, ideal_answer, student_answer_text,
                           student_answer_images)
    THEN GradeRefused("incomplete")
    ELSE IF VisionUnavailable(student_answer_images)
    THEN GradeRefused("image_requires_gemini")
    ELSE \E grading_style \in GradingStyles, g \in outcomes,
            uploaded \in [1..Len(student_answer_images) -> UploadOutcomes],
            visions \in [1..Len(student_answer_images) -> VisionOutcomes] :
           GradeAccepted(question, ideal_answer, student_answer_text,
                         student_answer_images, grading_style, uploaded, visions, g)

\* a run with the grading form submitted, the inputs drawn from the given sets
SubmitGradingOver(questions, ideal_answers, typed_answers, image_lists, outcomes) ==
    /\ Len(history) < MaxHistory
    /\ \E question \in questions, ideal_answer \in ideal_answers,
          student_answer_text \in typed_answers, student_answer_images \in image_lists :
         GradingRun(question, ideal_answer, student_answer_text, student_answer_images,
                    outcomes)

SubmitGrading ==
    SubmitGradingOver(Questions, IdealAnswers, TypedAnswers, ImageLists, GradeOutcomes)

----------------------------------------------------------------------------
(* A run of the script with the feedback form submitted (lines 483-606) *)

\* the run stops at the empty-detail guard (lines 542-545)
FeedbackRefused(satisfaction, detailed_feedback_text) ==
    /\ just_graded' = TRUE
    /\ messages' = {"feedback_needs_detail"}
    /\ calls' = {}
    /\ feedback_form' = <<[satisfaction |-> satisfaction,
                           detailed_feedback_text |-> detailed_feedback_text]>>
    /\ refine_response' = <<>>
    /\ UNCHANGED <<history, last_eval, current_adaptive_instruction, last_image_notes,
                   last_uploaded_links, GEMINI_AVAILABLE, sheet, lastPrompt>>

\* the run records the feedback (lines 547-606)
FeedbackAccepted(satisfaction, detailed_feedback_text, r, appended) ==
    LET generated_instruction ==
            GeneratedInstruction(satisfaction, detailed_feedback_text, r)
        hist == HistoryWithFeedback(satisfaction, detailed_feedback_text,
                                    generated_instruction)
        row == RowToAppend(satisfaction, generated_instruction, hist)
    IN  /\ history' = hist
        /\ current_adaptive_instruction' =
               AdaptiveInstructionAfter(satisfaction, detailed_feedback_text, r)
        /\ sheet' = IF appended THEN Append(sheet, row) ELSE sheet
        /\ just_graded' = JustGradedAfterAppend(appended)
        /\ last_uploaded_links' = <<>>
        /\ calls' = (IF RefinementWanted(satisfaction, detailed_feedback_text)
                     THEN {"refine"} ELSE {}) \cup {"sheet"}
        /\ messages' = RefinementMessages(satisfaction, detailed_feedback_text, r)
                       \cup (IF appended THEN {"log_ok"} ELSE {"log_error"})
        /\ feedback_form' = <<[satisfaction |-> satisfaction,
                               detailed_feedback_text |-> detailed_feedback_text]>>
        /\ refine_response' =
               IF RefinementWanted(satisfaction, detailed_feedback_text) /\ r.ok
               THEN <<r.content>> ELSE <<>>
        /\ UNCHANGED <<last_eval, last_image_notes, GEMINI_AVAILABLE, lastPrompt>>

SubmitFeedback ==
    /\ FeedbackFormShown
    /\ \E satisfaction \in Satisfactions, typed \in DetailTexts :
         LET detailed_feedback_text == IF satisfaction = "No" THEN typed ELSE <<>>
         IN  IF DetailMissing(satisfaction, detailed_feedback_text)
             THEN FeedbackRefused(satisfaction, detailed_feedback_text)
             ELSE \E r \in RefineOutcomes, appended \in BOOLEAN :
                    FeedbackAccepted(satisfaction, detailed_feedback_text, r, appended)

----------------------------------------------------------------------------

Next == SubmitGrading \/ SubmitFeedback

Spec == Init /\ [][Next]_vars

\* the grading handler alone, over the answers of the grading chain that vary
\* one score field
SubmitScores ==
    SubmitGradingOver({<<"Q1">>}, {<<"I1">>}, {<<"A1">>}, {<<>>}, ScoreOutcomes)

SpecScores == Init /\ [][SubmitScores]_vars

\* the grading handler alone, over the answers of the grading chain that vary
\* the justification
SubmitRender ==
    SubmitGradingOver({<<"Q1">>}, {<<"I1">>}, {<<"A1">>}, {<<>>}, RenderOutcomes)

SpecRender == Init /\ [][SubmitRender]_vars

\* the grading handler alone, over submissions of up to two images
SubmitImages ==
    SubmitGradingOver({<<"Q1">>}, {<<"I1">>}, TypedAnswers, TwoImageLists, ReadableOutcomes)

SpecImages == Init /\ [][SubmitImages]_vars

----------------------------------------------------------------------------
(* State functions the properties use *)

Latest == history[Len(history)]

\* the fields of a record that the grading writes and the feedback never does
GradingFields(rec) ==
    <<rec.user, rec.timestamp, rec.question, rec.ideal_answer, rec.student_answer,
      rec.evaluation, rec.image_links>>

Resolved(rec) == rec.feedback # ""

\* index of the most recently resolved record, 0 if there is none
LastResolved ==
    IF \E i \in 1..Len(history) : Resolved(history[i])
    THEN CHOOSE i \in 1..Len(history) :
            /\ Resolved(history[i])
            /\ \A j \in (i + 1)..Len(history) : ~Resolved(history[j])
    ELSE 0

\* the instruction the latest accepted feedback submission produced, <<>> if none
LearnedInstruction ==
    IF /\ LastResolved > 0
       /\ history[LastResolved].feedback = "No"
       /\ history[LastResolved].generated_instruction # <<>>
       /\ history[LastResolved].generated_instruction # SENTINEL
    THEN history[LastResolved].generated_instruction
    ELSE <<>>

\* the latest run called the grading engine
GradingInvoked == "grade" \in calls

\* the latest run was an accepted feedback submission
FeedbackRecorded == feedback_form # <<>> /\ "sheet" \in calls

\* the place of a score in a rendered evaluation (lines 437-447)
ScorePlace(f) ==
    CASE f = "content_accuracy" -> 4
      [] f = "completeness" -> 8
      [] f = "language_clarity" -> 12
      [] f = "depth_understanding" -> 16
      [] f = "structure_coherence" -> 20

\* the value an evaluation shows for a score, and for the total
ShownScore(evaluation, f) == evaluation[ScorePlace(f)]
ShownTotal(evaluation) == evaluation[24]

\* the step is the grading of a submission the chain answered with g
ScoresGraded(g) ==
    GradeAccepted(<<"Q1">>, <<"I1">>, <<"A1">>, <<>>, "Balanced", <<>>, <<>>, g)

\* the step is the accepted grading of the submission (typed, images) that the
\* vision engine answered with visions and the grading chain with g
ImagesGraded(student_answer_text, student_answer_images, visions, g) ==
    /\ SubmissionComplete(<<"Q1">>, <<"I1">>, student_answer_text, student_answer_images)
    /\ ~VisionUnavailable(student_answer_images)
    /\ GradeAccepted(<<"Q1">>, <<"I1">>, student_answer_text, student_answer_images,
                     "Balanced", [k \in 1..Len(student_answer_images) |-> TRUE],
                     visions, g)

\* the prompt of a grading whose student answer is the given text
PromptWith(student_answer) ==
    GradingPrompt("Balanced", <<"Q1">>, <<"I1">>, student_answer)

\* some image produced non-empty extracted text
AnyExtraction(visions) ==
    \E k \in 1..Len(visions) : visions[k].ok /\ Strip(visions[k].text) # <<>>

\* sub occurs in s as a run of consecutive tokens
Occurs(sub, s) ==
    \E k \in 0..(Len(s) - Len(sub)) : SubSeq(s, k + 1, k + Len(sub)) = sub

----------------------------------------------------------------------------
(* C1: after a dissatisfied feedback whose refinement produced an instruction  *)
(* S, the prompt of every grading invocation made while S is the latest        *)
(* outcome of a feedback submission has S as a prefix.                         *)

C1_PromptCarriesInstruction ==
    (GradingInvoked /\ LearnedInstruction # <<>>)
        => IsPrefix(LearnedInstruction, lastPrompt)

----------------------------------------------------------------------------
(* C2, as stated: when the refinement engine returns a non-empty, non-sentinel *)
(* string S, the slot afterwards equals exactly S and so does the latest       *)
(* record's generated_instruction.                                             *)

C2_SlotEqualsRawResult ==
    (/\ FeedbackRecorded
     /\ refine_response # <<>>
     /\ refine_response[1] # <<>>
     /\ refine_response[1] # SENTINEL)
        => /\ current_adaptive_instruction = refine_response[1]
           /\ Latest.generated_instruction = refine_response[1]

(* C2, amended: when the refinement engine's output, trimmed of surrounding    *)
(* whitespace, is a non-empty, non-sentinel string S, the slot afterwards      *)
(* equals exactly S whatever it held before (replaced, not appended), and the  *)
(* latest record's generated_instruction equals S.                             *)

C2_SlotReplacedByTrimmedResult ==
    (/\ FeedbackRecorded
     /\ refine_response # <<>>
     /\ Strip(refine_response[1]) # <<>>
     /\ Strip(refine_response[1]) # SENTINEL)
        => /\ current_adaptive_instruction = Strip(refine_response[1])
           /\ Latest.generated_instruction = Strip(refine_response[1])

\* a second instruction arrives while the slot holds the first
C2_Witness ==
    /\ Len(history) = 2
    /\ history[1].generated_instruction = <<"S1">>
    /\ FeedbackRecorded
    /\ refine_response = << <<" ", "S1">> >>
    /\ current_adaptive_instruction = <<"S1">>

----------------------------------------------------------------------------
(* C3: a feedback submission with satisfaction = No and an empty or            *)
(* whitespace-only detail is rejected: the refinement engine and the durable   *)
(* log are not called, the slot, the history and the sheet are unchanged, and  *)
(* just_graded stays true so that feedback can be submitted again.             *)

C3_BlankDetailRejected ==
    [][ (/\ feedback_form' # <<>>
         /\ feedback_form'[1].satisfaction = "No"
         /\ Strip(feedback_form'[1].detailed_feedback_text) = <<>>)
            => /\ history' = history
               /\ current_adaptive_instruction' = current_adaptive_instruction
               /\ sheet' = sheet
               /\ "refine" \notin calls'
               /\ "sheet" \notin calls'
               /\ just_graded'
               /\ FeedbackFormShown' ]_vars

C3_Witness ==
    /\ feedback_form = <<[satisfaction |-> "No", detailed_feedback_text |-> <<" ">>]>>
    /\ "feedback_needs_detail" \in messages
    /\ current_adaptive_instruction = <<"S1">>
    /\ FeedbackFormShown
    /\ ~Resolved(Latest)

----------------------------------------------------------------------------
(* C4: a feedback submission with satisfaction = Yes clears the slot whatever  *)
(* it held, sets feedback = Yes and generated_instruction = "" on the latest   *)
(* record, does not call the refinement engine, and resolves the cycle.        *)

C4_SatisfiedVoteClears ==
    (feedback_form # <<>> /\ feedback_form[1].satisfaction = "Yes")
        => /\ current_adaptive_instruction = <<>>
           /\ Latest.feedback = "Yes"
           /\ Latest.generated_instruction = <<>>
           /\ "refine" \notin calls
           /\ refine_response = <<>>
           /\ ~just_graded
           /\ ~FeedbackFormShown

\* the satisfied vote arrives while the slot holds an instruction
C4_Witness ==
    /\ Len(history) = 2
    /\ history[1].generated_instruction = <<"S1">>
    /\ feedback_form # <<>>
    /\ feedback_form[1].satisfaction = "Yes"
    /\ history[2].feedback = "Yes"

----------------------------------------------------------------------------
(* C5: a refinement result equal to the sentinel leaves the slot as an empty   *)
(* refinement result does, whatever the slot held: empty.                      *)

C5_SentinelClearsLikeEmpty ==
    (/\ FeedbackRecorded
     /\ refine_response # <<>>
     /\ refine_response[1] \in {SENTINEL, <<>>})
        => current_adaptive_instruction = <<>>

\* the sentinel arrives while the slot holds an instruction
C5_Witness ==
    /\ Len(history) = 2
    /\ history[1].generated_instruction = <<"S1">>
    /\ FeedbackRecorded
    /\ refine_response = <<SENTINEL>>

----------------------------------------------------------------------------
(* C6: when the refinement engine returns the sentinel or empty text, the      *)
(* latest record's generated_instruction and the generated-instruction column  *)
(* of the row appended to the durable log are both empty.                      *)

C6_SentinelRecordedEmpty ==
    (/\ FeedbackRecorded
     /\ refine_response # <<>>
     /\ refine_response[1] \in {SENTINEL, <<>>})
        => /\ Latest.generated_instruction = <<>>
           /\ ("log_ok" \in messages
                 => sheet[Len(sheet)].generated_instruction = <<>>)

----------------------------------------------------------------------------
(* C7: when the refinement call raises, the feedback submission goes on: the   *)
(* latest record holds the satisfaction and the (trimmed) detail text, its     *)
(* generated_instruction is empty, the slot is cleared, the durable-log append *)
(* is attempted, and just_graded is false.                                     *)

C7_RefinementFailureRecorded ==
    ("refine_error" \in messages)
        => /\ feedback_form # <<>>
           /\ feedback_form[1].satisfaction = "No"
           /\ Latest.feedback = "No"
           /\ Latest.detailed_feedback = Strip(feedback_form[1].detailed_feedback_text)
           /\ Latest.detailed_feedback # <<>>
           /\ Latest.generated_instruction = <<>>
           /\ current_adaptive_instruction = <<>>
           /\ "sheet" \in calls
           /\ messages \cap {"log_ok", "log_error"} # {}
           /\ ~just_graded

\* the refinement raises while the slot holds an instruction, and the append fails too
C7_Witness ==
    /\ "refine_error" \in messages
    /\ "log_error" \in messages
    /\ Len(history) = 2
    /\ history[1].generated_instruction = <<"S1">>
    /\ history[2].feedback = "No"

----------------------------------------------------------------------------
(* C8: a grading submission whose grading call fails appends no record,        *)
(* changes no record of the history and does not change the slot; after it a   *)
(* grading submission is still possible.                                       *)

C8_FailedGradingLeavesSession ==
    /\ [][ ("grading_error" \in messages')
              => /\ history' = history
                 /\ current_adaptive_instruction' = current_adaptive_instruction ]_vars
    /\ [](("grading_error" \in messages) => ENABLED SubmitGrading)

C8_Witness ==
    /\ "grading_error" \in messages
    /\ GradingInvoked
    /\ Len(history) = 1
    /\ current_adaptive_instruction = <<"S1">>

----------------------------------------------------------------------------
(* C9: once a record is resolved no step changes any of its fields, and the    *)
(* feedback form can be submitted only while the latest record is unresolved,  *)
(* so the feedback fields of a record are written by at most one submission.   *)

C9_ResolvedRecordsFrozen ==
    /\ [][ \A i \in 1..Len(history) :
              Resolved(history[i]) => (i <= Len(history') /\ history'[i] = history[i]) ]_vars
    /\ [](FeedbackFormShown => (Len(history) > 0 /\ ~Resolved(Latest)))

\* a second record was graded and resolved after the first was resolved
C9_Witness ==
    /\ Len(history) = 2
    /\ history[1].feedback = "No"
    /\ history[1].generated_instruction = <<"S1">>
    /\ history[2].feedback = "Yes"
    /\ ~FeedbackFormShown

----------------------------------------------------------------------------
(* C10: the history starts empty and is append-only: a step appends a record   *)
(* exactly when a grading succeeds, the record goes to the end with empty      *)
(* feedback fields, and no step removes a record or changes what the grading   *)
(* wrote in an earlier one.                                                    *)

C10_HistoryAppendOnly ==
    /\ history = <<>>
    /\ [][ /\ Len(history') \in {Len(history), Len(history) + 1}
           /\ \A i \in 1..Len(history) :
                 GradingFields(history'[i]) = GradingFields(history[i])
           /\ (Len(history') = Len(history) + 1) <=> ("grading_ok" \in messages')
           /\ (Len(history') = Len(history) + 1)
                 => /\ history'[Len(history')].feedback = ""
                    /\ history'[Len(history')].detailed_feedback = <<>>
                    /\ history'[Len(history')].generated_instruction = <<>> ]_vars

\* a second record was appended behind a resolved one
C10_Witness ==
    /\ Len(history) = 2
    /\ "grading_ok" \in messages
    /\ Resolved(history[1])
    /\ ~Resolved(history[2])
    /\ history[1].timestamp # history[2].timestamp

----------------------------------------------------------------------------
(* C11: the evaluation a successful grading stores shows, for each score, the  *)
(* float of the engine's field, and as total the sum of these five floats,     *)
(* whatever total the engine's answer carries.                                 *)

C11_TotalIsSumOfScores ==
    [][\A g \in ScoreOutcomes :
          (GradingSucceeds(g) /\ ScoresGraded(g)) =>
             LET e == history'[Len(history')].evaluation
             IN  /\ \A f \in ScoreFields :
                       ShownScore(e, f) = FloatStr(Float(g.scores[f]))
                 /\ ShownTotal(e) =
                       FloatStr(Float(g.scores["content_accuracy"])
                                + Float(g.scores["completeness"])
                                + Float(g.scores["language_clarity"])
                                + Float(g.scores["depth_understanding"])
                                + Float(g.scores["structure_coherence"]))]_vars

\* a grading whose engine reported 10 stored a total of 7, the sum 3+1+1+1+1
C11_Witness ==
    /\ "grading_ok" \in messages
    /\ ShownScore(Latest.evaluation, "content_accuracy") = FloatStr(3)
    /\ ShownTotal(Latest.evaluation) = FloatStr(7)

----------------------------------------------------------------------------
(* C12: every evaluation stored in the history shows each score within its     *)
(* cap (0..3, 0..2, 0..2, 0..2, 0..1) and a total within 0..10.                *)

C12_ScoresWithinCaps ==
    \A i \in 1..Len(history) :
        LET e == history[i].evaluation
        IN  /\ \A f \in ScoreFields :
                  ShownScore(e, f) \in {FloatStr(x) : x \in 0..ScoreCap(f)}
            /\ ShownTotal(e) \in {FloatStr(x) : x \in 0..10}

----------------------------------------------------------------------------
(* C13: a grading whose engine answered with a score field missing or          *)
(* non-numeric appends a record, and the record shows 0 for that field.        *)

C13_BadFieldScoredZero ==
    [][\A g \in ScoreOutcomes :
          ScoresGraded(g) =>
             /\ Len(history') = Len(history) + 1
             /\ \A f \in ScoreFields :
                   g.scores[f].kind \in {"missing", "str"} =>
                      ShownScore(history'[Len(history')].evaluation, f) = FloatStr(0)]_vars

----------------------------------------------------------------------------
(* C14: the student answer a successful grading stores in the history record   *)
(* and in the cached evaluation the log row is built from is the typed text    *)
(* (trimmed) whenever typed text was given, images or not, and the image       *)
(* context only when no text was typed.                                        *)

C14_LogKeepsTypedText ==
    [][\A t \in TypedAnswers, imgs \in TwoImageLists :
         \A visions \in [1..Len(imgs) -> VisionOutcomes], g \in ReadableOutcomes :
            (GradingSucceeds(g) /\ ImagesGraded(t, imgs, visions, g)) =>
               LET logged == history'[Len(history')].student_answer
               IN  /\ last_eval'[1].student_answer = logged
                   /\ t # <<>> => logged = Strip(t)
                   /\ t = <<>> => logged = ImageContext(GEMINI_AVAILABLE, imgs, visions)]_vars

----------------------------------------------------------------------------
(* C15 as stated: the student answer of the grading prompt is the typed text,  *)
(* followed by the delimited image context iff an image produced text.         *)

C15_GradingTextIsTypedText ==
    [][\A t \in TypedAnswers, imgs \in TwoImageLists :
         \A visions \in [1..Len(imgs) -> VisionOutcomes], g \in ReadableOutcomes :
            ImagesGraded(t, imgs, visions, g) =>
               lastPrompt' = PromptWith(
                   t \o (IF AnyExtraction(visions)
                         THEN ContextDelimiter
                              \o ImageContext(GEMINI_AVAILABLE, imgs, visions)
                         ELSE <<>>))]_vars

(* C15 amended: the student answer of the grading prompt is the typed text     *)
(* trimmed of surrounding whitespace, followed by the delimited image context  *)
(* iff an image produced non-empty text; with no such image it is the trimmed  *)
(* typed text alone and the delimiter occurs nowhere in the prompt.            *)

C15_GradingTextIsTrimmedTypedText ==
    [][\A t \in TypedAnswers, imgs \in TwoImageLists :
         \A visions \in [1..Len(imgs) -> VisionOutcomes], g \in ReadableOutcomes :
            ImagesGraded(t, imgs, visions, g) =>
               /\ lastPrompt' = PromptWith(
                      Strip(t) \o (IF AnyExtraction(visions)
                                   THEN ContextDelimiter
                                        \o ImageContext(GEMINI_AVAILABLE, imgs, visions)
                                   ELSE <<>>))
               /\ AnyExtraction(visions) <=> Occurs(ContextDelimiter, lastPrompt')]_vars

\* a grading was invoked on typed text followed by the delimited image context
C15_Witness ==
    /\ GradingInvoked
    /\ Occurs(<<"A1">> \o ContextDelimiter \o <<"[VISION:", "a.png", "]">>, lastPrompt)

----------------------------------------------------------------------------
(* C16: in a grading whose vision engine failed on some image, every image     *)
(* has its note in upload order, the failed image's extraction is empty, each  *)
(* other image's extraction is its trimmed text and, when non-empty, occurs    *)
(* in the prompt, and the grading engine is invoked.                           *)

C16_VisionFailureIsolated ==
    [][\A t \in TypedAnswers, imgs \in TwoImageLists :
         \A visions \in [1..Len(imgs) -> VisionOutcomes], g \in ReadableOutcomes :
            ((\E k \in 1..Len(imgs) : ~visions[k].ok) /\ ImagesGraded(t, imgs, visions, g)) =>
               /\ "grade" \in calls'
               /\ Len(last_image_notes') = Len(imgs)
               /\ \A j \in 1..Len(imgs) :
                     /\ last_image_notes'[j].file = imgs[j]
                     /\ last_image_notes'[j].vision_excerpt =
                           (IF visions[j].ok THEN Strip(visions[j].text) ELSE <<>>)
                     /\ (visions[j].ok /\ Strip(visions[j].text) # <<>>) =>
                           Occurs(<<"[VISION:", imgs[j], "]", "\n">> \o Strip(visions[j].text),
                                  lastPrompt')]_vars

\* the first of two images failed and the second's text reached the prompt
C16_Witness ==
    /\ GradingInvoked
    /\ "vision_failed" \in messages
    /\ Len(last_image_notes) = 2
    /\ last_image_notes[1].vision_excerpt = <<>>
    /\ Occurs(<<"[VISION:", "b.png", "]", "\n", "V1">>, lastPrompt)

----------------------------------------------------------------------------
(* C17: a run on a grading submission that holds images while the vision       *)
(* engine is unavailable calls nothing (no upload, no extraction, no grading)  *)
(* and leaves the history, the slot, just_graded, last_eval, the cached links  *)
(* and notes and the durable log as they were.                                 *)

C17_ImagesRejectedWithoutVision ==
    [][\A q \in Questions, i \in IdealAnswers, t \in TypedAnswers, imgs \in ImageLists :
          (/\ imgs # <<>>
           /\ ~GEMINI_AVAILABLE
           /\ GradingRun(q, i, t, imgs, GradeOutcomes)) =>
             /\ calls' = {}
             /\ UNCHANGED <<history, current_adaptive_instruction, just_graded, last_eval,
                            last_uploaded_links, last_image_notes, sheet>>]_vars

\* an image submission was stopped at the guard while a feedback was pending
C17_Witness ==
    /\ messages = {"image_requires_gemini"}
    /\ ~GEMINI_AVAILABLE
    /\ just_graded
    /\ history # <<>>

----------------------------------------------------------------------------
(* C18: a run on a grading submission with an empty question, an empty ideal   *)
(* answer, or neither typed text nor images calls nothing and leaves the       *)
(* history, the slot, just_graded, last_eval, the cached links and the durable *)
(* log as they were.                                                           *)

C18_IncompleteRejected ==
    [][\A q \in Questions, i \in IdealAnswers, t \in TypedAnswers, imgs \in ImageLists :
          (/\ q = <<>> \/ i = <<>> \/ (t = <<>> /\ imgs = <<>>)
           /\ GradingRun(q, i, t, imgs, GradeOutcomes)) =>
             /\ calls' = {}
             /\ UNCHANGED <<history, current_adaptive_instruction, just_graded, last_eval,
                            last_uploaded_links, last_image_notes, sheet>>]_vars

\* an incomplete submission was refused while a feedback was pending
C18_Witness ==
    /\ messages = {"incomplete"}
    /\ just_graded
    /\ last_eval # <<>>

----------------------------------------------------------------------------
(* C19: after an accepted feedback submission, whether the append to the       *)
(* durable log failed or not, the latest record holds the satisfaction, the    *)
(* trimmed detail and the instruction the refinement produced, the slot holds  *)
(* the value the refinement decided, and no feedback is pending.               *)

C19_LogFailureKeepsSession ==
    FeedbackRecorded =>
        LET form == feedback_form[1]
            produced == IF refine_response # <<>> THEN Strip(refine_response[1]) ELSE <<>>
        IN  /\ Latest.feedback = form.satisfaction
            /\ Latest.detailed_feedback = Strip(form.detailed_feedback_text)
            /\ Latest.generated_instruction = produced
            /\ current_adaptive_instruction =
                  (IF produced \in {<<>>, SENTINEL} THEN <<>> ELSE produced)
            /\ ~just_graded
            /\ ~FeedbackFormShown
            /\ last_uploaded_links = <<>>

\* the append failed after a refinement that produced an instruction
C19_Witness ==
    /\ FeedbackRecorded
    /\ "log_error" \in messages
    /\ sheet = <<>>
    /\ current_adaptive_instruction # <<>>

----------------------------------------------------------------------------
(* C20: no cell of a row of the durable log or of the export holds a line      *)
(* break in its question, student answer, evaluation, detailed feedback or     *)
(* generated instruction.                                                      *)

C20_RowsFlattened ==
    \A rows \in {sheet, ExportRows} : \A k \in 1..Len(rows) :
        /\ \A j \in 1..Len(rows[k].question) : rows[k].question[j] # "\n"
        /\ \A j \in 1..Len(rows[k].student_answer) : rows[k].student_answer[j] # "\n"
        /\ \A j \in 1..Len(rows[k].evaluation) : rows[k].evaluation[j] # "\n"
        /\ \A j \in 1..Len(rows[k].detailed_feedback) : rows[k].detailed_feedback[j] # "\n"
        /\ \A j \in 1..Len(rows[k].generated_instruction) :
              rows[k].generated_instruction[j] # "\n"

----------------------------------------------------------------------------
(* C21: after a successful grading, whatever the justification holds, what     *)
(* precedes the first marker of the cached evaluation is the Marks section     *)
(* the render produced, and what follows it is the trimmed justification.      *)

C21_SplitRecoversSections ==
    [][\A g \in RenderOutcomes :
          ScoresGraded(g) =>
             LET e == last_eval'[1].evaluation
             IN  /\ FeedbackFormShown'
                 /\ MarksSectionRaw(e) = MarksBlock(g)
                 /\ ExplanationSection(e) = Strip(g.justification)]_vars

\* an evaluation is displayed whose justification holds the marker
C21_Witness ==
    /\ FeedbackFormShown
    /\ Cardinality(MarkerPlaces(last_eval[1].evaluation)) = 2
    /\ ExplanationSection(last_eval[1].evaluation) = <<"## Justification:", "\n", "twice">>

----------------------------------------------------------------------------
(* C22: in every state the slot is the instruction of the most recently        *)
(* resolved record: empty when no record is resolved, when that record's       *)
(* feedback is Yes, or when its refinement gave empty text, the sentinel or a  *)
(* failure, and that record's refinement string otherwise; and no run of the   *)
(* grading form, accepted or refused, failed or not, changes the slot.         *)

C22_SlotFollowsLastResolved ==
    /\ [](current_adaptive_instruction = LearnedInstruction)
    /\ [][ \A q \in Questions, i \in IdealAnswers, t \in TypedAnswers, imgs \in ImageLists :
              GradingRun(q, i, t, imgs, GradeOutcomes)
                 => current_adaptive_instruction' = current_adaptive_instruction ]_vars

\* the slot holds the instruction of the first record while a second record,
\* graded later, awaits its feedback
C22_Witness ==
    /\ Len(history) = 2
    /\ LastResolved = 1
    /\ just_graded
    /\ current_adaptive_instruction = history[1].generated_instruction
    /\ current_adaptive_instruction # <<>>

----------------------------------------------------------------------------
(* C23 as stated: while the feedback form is shown the cached evaluation and   *)
(* links are those of the latest record, and the row an accepted feedback      *)
(* appends has the submitter, timestamp, question, student answer, evaluation  *)
(* and image links of the record whose feedback fields it wrote.               *)

C23_RowEqualsRecord ==
    /\ FeedbackFormShown =>
          /\ <<last_eval[1].email, last_eval[1].timestamp, last_eval[1].question,
                last_eval[1].student_answer, last_eval[1].evaluation>>
               = <<Latest.user, Latest.timestamp, Latest.question,
                   Latest.student_answer, Latest.evaluation>>
          /\ JoinLinks(last_uploaded_links) = Latest.image_links
    /\ (FeedbackRecorded /\ "log_ok" \in messages) =>
          LET row == sheet[Len(sheet)]
          IN  <<row.user, row.timestamp, row.question, row.student_answer,
                row.evaluation, row.image_links>>
               = <<Latest.user, Latest.timestamp, Latest.question, Latest.student_answer,
                   Latest.evaluation, Latest.image_links>>

(* C23 amended: the same, the row's evaluation being the record's evaluation   *)
(* with each line break replaced by the replacement token.                     *)

C23_RowDescribesRecord ==
    /\ FeedbackFormShown =>
          /\ <<last_eval[1].email, last_eval[1].timestamp, last_eval[1].question,
                last_eval[1].student_answer, last_eval[1].evaluation>>
               = <<Latest.user, Latest.timestamp, Latest.question,
                   Latest.student_answer, Latest.evaluation>>
          /\ JoinLinks(last_uploaded_links) = Latest.image_links
    /\ (FeedbackRecorded /\ "log_ok" \in messages) =>
          LET row == sheet[Len(sheet)]
          IN  <<row.user, row.timestamp, row.question, row.student_answer,
                row.evaluation, row.image_links>>
               = <<Latest.user, Latest.timestamp, Latest.question, Latest.student_answer,
                   FlattenLines(Latest.evaluation), Latest.image_links>>

\* the feedback of a second record, graded with an image, was logged
C23_Witness ==
    /\ FeedbackRecorded
    /\ "log_ok" \in messages
    /\ Len(history) = 2
    /\ Latest.image_links # <<>>
    /\ sheet[Len(sheet)].image_links = Latest.image_links

----------------------------------------------------------------------------
(* C24: a grading that fails while the latest record awaits its feedback       *)
(* leaves the feedback form shown (the guard of the feedback submission), so   *)
(* the feedback can still be submitted.                                        *)

C24_FailedGradingKeepsFeedbackPending ==
    [][ ("grading_error" \in messages' /\ FeedbackFormShown)
           => FeedbackFormShown' ]_vars

----------------------------------------------------------------------------
(* C25: the student answer of the prompt of every grading invocation is        *)
(* non-empty.                                                                  *)

C25_EngineNeverGivenEmptyAnswer ==
    GradingInvoked => lastPrompt # PromptWith(<<>>)

====
